---- MODULE Spec2Model ----
(***************************************************************************)
(* Tag abstraction and conversion layer of lofty-rs, and its audio         *)
(* properties data model.                                                  *)
(*                                                                         *)
(*   traits.rs      AudioTagEdit (derived track/disc/album accessors),     *)
(*                  ToAnyTag::to_dyn_tag                                   *)
(*   macros.rs      impl_tag!: Default/new/read_from_path, to_anytag,      *)
(*                  From<Box<dyn AudioTag>> for the wrapper                *)
(*   properties.rs  FileProperties, ChannelMask                            *)
(*                                                                         *)
(* The concrete tags (Id3v2Tag, VorbisTag, Mp4Tag), AnyTag and the         *)
(* conversions between them live in crate::components::tags and            *)
(* crate::AnyTag; they are modelled from the design document (sections 3,  *)
(* 4.1 and 4.2).                                                           *)
(***************************************************************************)
EXTENDS Integers, Sequences, FiniteSets, TLC

VARIABLES
    tag,        \* the concrete tag the caller holds
    pre,        \* the tag as it was before the last call
    last,       \* name of the last call ("init" after construction)
    prev,       \* name of the call before the last one
    arg,        \* argument of the last call, <<>> when it takes none
    out,        \* Option: the tag the last conversion returned
    box,        \* Option: what the consumed Box<dyn AudioTag> holds on return
    panicked,   \* an unwrap() on None was reached
    nops,       \* number of calls made on the tag since construction
    cm,         \* ChannelMask: the current mask value
    cmLhs,      \* ChannelMask: left operand of the last operator
    cmRhs,      \* ChannelMask: right operand of the last operator
    cmOp,       \* ChannelMask: name of the last operation
    cmPrev,     \* ChannelMask: <<name, left, right>> of the operation before
    cmN,        \* ChannelMask: number of operators applied
    props,      \* the FileProperties value
    propsArgs,  \* the arguments FileProperties::new was called with
    propsPre,   \* the FileProperties value before the last call
    propsOp,    \* name of the last FileProperties call
    got,        \* Option: what the last getter returned
    reads       \* number of getter calls since construction

tagVars   == <<tag, pre, last, prev, arg, out, box, panicked, nops>>
maskVars  == <<cm, cmLhs, cmRhs, cmOp, cmPrev, cmN>>
propsVars == <<props, propsArgs, propsPre, propsOp, got, reads>>
vars      == <<tagVars, maskVars, propsVars>>

----------------------------------------------------------------------------
(* Bounds *)

\* calls made on one tag after its construction
MaxOps == 2

\* operators applied to one ChannelMask value
MaxMaskOps == 2

\* getter calls made on one FileProperties value
MaxReads == 2

----------------------------------------------------------------------------
(* Option<T>: None is the empty sequence, Some(x) the one-element one *)

None == <<>>
Some(x) == <<x>>
IsSome(o) == o # <<>>
Unwrap(o) == o[1]

----------------------------------------------------------------------------
(* Value domains *)

\* enum TagType, the match arms of to_dyn_tag
TagTypes == {"Id3v2", "Ogg", "Opus", "Flac", "Mp4"}

\* the wrappers impl_tag! stamps out
Wrappers == {"Id3v2Tag", "VorbisTag", "Mp4Tag"}

\* u16 arguments: both ends of the range
U16Args == {0, 65535}

Cover1 == [mime_type |-> "Jpeg", data |-> <<255, 216>>]
Cover2 == [mime_type |-> "Png", data |-> <<137, 80>>]

----------------------------------------------------------------------------
(* The concrete tag: its $inner value seen through AudioTagEdit, plus the  *)
(* scheme-native data that has no AnyTag analogue.                         *)

\* $inner::default()
InnerDefault ==
    [title |-> None, artists |-> <<>>, year |-> None,
     album_title |-> None, album_artists |-> <<>>, album_cover |-> None,
     track_number |-> None, total_tracks |-> None,
     disc_number |-> None, total_discs |-> None,
     native |-> None]

\* pub struct $tag($inner): the wrapper type with the inner value's fields
Wrap(w, inner) ==
    [scheme |-> w,
     title |-> inner.title, artists |-> inner.artists, year |-> inner.year,
     album_title |-> inner.album_title, album_artists |-> inner.album_artists,
     album_cover |-> inner.album_cover,
     track_number |-> inner.track_number, total_tracks |-> inner.total_tracks,
     disc_number |-> inner.disc_number, total_discs |-> inner.total_discs,
     native |-> inner.native]

\* a default that is not empty
TagDefault_Untitled(w) == Wrap(w, [InnerDefault EXCEPT !.title = Some("untitled")])

\* impl Default for $tag: Self($inner::default())
TagDefault(w) == Wrap(w, InnerDefault)

\* $tag::new(): Self::default()
new(w) == TagDefault(w)

\* what $inner::from_path can return: the contents of the files read
FileCorpus ==
    { [title |-> Some("t1"), artists |-> <<"x", "y">>, year |-> Some(1999),
       album_title |-> Some("al1"), album_artists |-> <<"p", "q">>,
       album_cover |-> Some(Cover1),
       track_number |-> Some(3), total_tracks |-> Some(12),
       disc_number |-> Some(1), total_discs |-> Some(2),
       native |-> Some("private")],
      [title |-> Some("t1"), artists |-> <<"y", "x">>, year |-> None,
       album_title |-> Some("al1"), album_artists |-> <<>>,
       album_cover |-> None,
       track_number |-> Some(3), total_tracks |-> None,
       disc_number |-> None, total_discs |-> Some(2),
       native |-> None],
      [title |-> None, artists |-> <<>>, year |-> Some(1999),
       album_title |-> None, album_artists |-> <<"p">>,
       album_cover |-> None,
       track_number |-> None, total_tracks |-> Some(12),
       disc_number |-> Some(1), total_discs |-> None,
       native |-> Some("private")] }

\* $tag::read_from_path: Ok(Self($inner::from_path(path, tag_type)?))
read_from_path(w, content) == Wrap(w, content)

----------------------------------------------------------------------------
(* AudioTagEdit: required accessors, as the concrete tags implement them *)

title(t) == t.title
set_title(t, v) == [t EXCEPT !.title = Some(v)]
remove_title(t) == [t EXCEPT !.title = None]

artist(t) == IF t.artists = <<>> THEN None ELSE Some(Head(t.artists))
set_artist(t, v) == [t EXCEPT !.artists = <<v>>]
add_artist(t, v) == [t EXCEPT !.artists = Append(@, v)]
artists(t) == IF t.artists = <<>> THEN None ELSE Some(t.artists)
remove_artist(t) == [t EXCEPT !.artists = <<>>]

year(t) == t.year
set_year(t, v) == [t EXCEPT !.year = Some(v)]
remove_year(t) == [t EXCEPT !.year = None]

album_title(t) == t.album_title
set_album_title(t, v) == [t EXCEPT !.album_title = Some(v)]
remove_album_title(t) == [t EXCEPT !.album_title = None]

album_artists(t) ==
    IF t.album_artists = <<>> THEN None ELSE Some(t.album_artists)
\* the String argument is held as the names it lists
set_album_artists(t, names) == [t EXCEPT !.album_artists = names]
add_album_artist(t, v) == [t EXCEPT !.album_artists = Append(@, v)]
remove_album_artists(t) == [t EXCEPT !.album_artists = <<>>]

album_cover(t) == t.album_cover
set_album_cover(t, c) == [t EXCEPT !.album_cover = Some(c)]
remove_album_cover(t) == [t EXCEPT !.album_cover = None]

track_number(t) == t.track_number
set_track_number(t, n) == [t EXCEPT !.track_number = Some(n)]
remove_track_number(t) == [t EXCEPT !.track_number = None]

total_tracks(t) == t.total_tracks
set_total_tracks(t, n) == [t EXCEPT !.total_tracks = Some(n)]
remove_total_tracks(t) == [t EXCEPT !.total_tracks = None]

disc_number(t) == t.disc_number
set_disc_number(t, n) == [t EXCEPT !.disc_number = Some(n)]
remove_disc_number(t) == [t EXCEPT !.disc_number = None]

total_discs(t) == t.total_discs
set_total_discs(t, n) == [t EXCEPT !.total_discs = Some(n)]
remove_total_discs(t) == [t EXCEPT !.total_discs = None]

----------------------------------------------------------------------------
(* AudioTagEdit: provided (default) methods, traits.rs *)

album(t) ==
    [title |-> album_title(t), artists |-> album_artists(t), cover |-> album_cover(t)]

track(t) == <<track_number(t), total_tracks(t)>>

\* set_track writing the number into the total as well
set_track_AlsoTotal(t, n) == set_total_tracks(set_track_number(t, n), n)

set_track(t, n) == set_track_number(t, n)

\* remove_track without its second call
remove_track_NumberOnly(t) == remove_track_number(t)

remove_track(t) == remove_total_tracks(remove_track_number(t))

disc(t) == <<disc_number(t), total_discs(t)>>

set_disc(t, n) == set_disc_number(t, n)

\* remove_disc without its second call
remove_disc_NumberOnly(t) == remove_disc_number(t)

remove_disc(t) == remove_total_discs(remove_disc_number(t))

----------------------------------------------------------------------------
(* AnyTag and the conversions through it *)

\* From<&$tag> for AnyTag: the projection onto the common field set
AnyTagOf(t) ==
    [title |-> title(t),
     artists |-> artists(t),
     album |-> album(t),
     track_number |-> track_number(t),
     total_tracks |-> total_tracks(t),
     disc_number |-> disc_number(t),
     total_discs |-> total_discs(t)]

\* to_anytag projecting a fresh tag instead of self
to_anytag_Fresh(t) == AnyTagOf(Wrap(t.scheme, InnerDefault))

\* ToAnyTag::to_anytag for $tag: self.into()
to_anytag(t) == AnyTagOf(t)

RECURSIVE AddArtists(_, _)
\* artists -> repeated add_artist calls in original order
AddArtists(t, names) ==
    IF names = <<>> THEN t ELSE AddArtists(add_artist(t, Head(names)), Tail(names))

\* From<AnyTag> for $tag, the i-th field of AnyTag: into its setter when
\* present, left alone when absent
CopyField(i, t, a) ==
    CASE i = 1 -> IF IsSome(a.title) THEN set_title(t, Unwrap(a.title)) ELSE t
      [] i = 2 -> IF IsSome(a.artists) THEN AddArtists(t, Unwrap(a.artists)) ELSE t
      [] i = 3 -> IF IsSome(a.album.title)
                  THEN set_album_title(t, Unwrap(a.album.title)) ELSE t
      [] i = 4 -> IF IsSome(a.album.artists)
                  THEN set_album_artists(t, Unwrap(a.album.artists)) ELSE t
      [] i = 5 -> IF IsSome(a.album.cover)
                  THEN set_album_cover(t, Unwrap(a.album.cover)) ELSE t
      [] i = 6 -> IF IsSome(a.track_number)
                  THEN set_track_number(t, Unwrap(a.track_number)) ELSE t
      [] i = 7 -> IF IsSome(a.total_tracks)
                  THEN set_total_tracks(t, Unwrap(a.total_tracks)) ELSE t
      [] i = 8 -> IF IsSome(a.disc_number)
                  THEN set_disc_number(t, Unwrap(a.disc_number)) ELSE t
      [] i = 9 -> IF IsSome(a.total_discs)
                  THEN set_total_discs(t, Unwrap(a.total_discs)) ELSE t

RECURSIVE CopyFields(_, _, _)
\* the fields from the i-th on, one after the other
CopyFields(i, t, a) ==
    IF i > 9 THEN t
    ELSE CHOOSE r \in {CopyFields(i + 1, u, a) : u \in {CopyField(i, t, a)}} : TRUE

\* From<AnyTag> for $tag: a default target, then every field present in
\* AnyTag through the corresponding setter
FromAnyTag(w, a) == CopyFields(1, new(w), a)

\* to_dyn_tag with the Opus arm building the wrong wrapper
to_dyn_tag_OpusArm(t, tag_type) ==
    CASE tag_type = "Id3v2" -> FromAnyTag("Id3v2Tag", AnyTagOf(t))
      [] tag_type = "Ogg"   -> FromAnyTag("VorbisTag", AnyTagOf(t))
      [] tag_type = "Opus"  -> FromAnyTag("Mp4Tag", AnyTagOf(t))
      [] tag_type = "Flac"  -> FromAnyTag("VorbisTag", AnyTagOf(t))
      [] tag_type = "Mp4"   -> FromAnyTag("Mp4Tag", AnyTagOf(t))

\* ToAnyTag::to_dyn_tag: one arm per TagType, each through to_anytag
to_dyn_tag(t, tag_type) ==
    CASE tag_type = "Id3v2" -> FromAnyTag("Id3v2Tag", to_anytag(t))
      [] tag_type = "Ogg"   -> FromAnyTag("VorbisTag", to_anytag(t))
      [] tag_type = "Opus"  -> FromAnyTag("VorbisTag", to_anytag(t))
      [] tag_type = "Flac"  -> FromAnyTag("VorbisTag", to_anytag(t))
      [] tag_type = "Mp4"   -> FromAnyTag("Mp4Tag", to_anytag(t))

\* the $tag_type each impl_tag!($tag, $inner, $tag_type) may be stamped with
TagTypesOf(w) ==
    CASE w = "Id3v2Tag"  -> {"Id3v2"}
      [] w = "VorbisTag" -> {"Ogg", "Opus", "Flac"}
      [] w = "Mp4Tag"    -> {"Mp4"}

\* to_any_mut().downcast_mut::<$tag>(): Some exactly for a value of type $tag
downcast_mut(t, w) == IF t.scheme = w THEN Some(t) ELSE None

\* From<Box<dyn AudioTag>> without the same-type branch
FromBoxDyn_AlwaysConvert(w, tag_type, inp) ==
    LET t == FromAnyTag(w, AnyTagOf(inp))
    IN  [ret |-> Some(t), box |-> Some(inp), panicked |-> FALSE]

\* From<Box<dyn AudioTag>> for $tag.  ret is the tag returned, box what the
\* consumed source box holds when the function returns, panicked whether the
\* unwrap() of the else branch met None.
FromBoxDyn(w, tag_type, inp) ==
    IF IsSome(downcast_mut(inp, w))
    THEN [ret |-> Some(inp), box |-> Some(new(w)), panicked |-> FALSE]
    ELSE LET t == to_dyn_tag(inp, tag_type)
         IN  IF IsSome(downcast_mut(t, w))
             THEN [ret |-> Some(t), box |-> Some(inp), panicked |-> FALSE]
             ELSE [ret |-> None, box |-> Some(inp), panicked |-> TRUE]

\* every AudioTagEdit accessor result of a tag
Observable(t) ==
    [title |-> title(t), artist |-> artist(t), artists |-> artists(t),
     year |-> year(t), album |-> album(t),
     track |-> track(t), disc |-> disc(t)]

----------------------------------------------------------------------------
(* The tag machine: a tag is constructed, then called MaxOps times *)

\* a &mut self call: the tag becomes t
Mutate(name, a, t) ==
    /\ nops < MaxOps
    /\ ~panicked
    /\ tag' = t
    /\ pre' = tag
    /\ prev' = last
    /\ last' = name
    /\ arg' = a
    /\ out' = None
    /\ box' = None
    /\ panicked' = FALSE
    /\ nops' = nops + 1
    /\ UNCHANGED <<maskVars, propsVars>>

SetTitle == \E v \in {"t2"} : Mutate("set_title", <<v>>, set_title(tag, v))
RemoveTitle == Mutate("remove_title", <<>>, remove_title(tag))
SetArtist == \E v \in {"z"} : Mutate("set_artist", <<v>>, set_artist(tag, v))
AddArtist == \E v \in {"z"} : Mutate("add_artist", <<v>>, add_artist(tag, v))
RemoveArtist == Mutate("remove_artist", <<>>, remove_artist(tag))
SetYear == \E n \in {2024} : Mutate("set_year", <<n>>, set_year(tag, n))
RemoveYear == Mutate("remove_year", <<>>, remove_year(tag))
SetAlbumTitle == \E v \in {"al2"} : Mutate("set_album_title", <<v>>, set_album_title(tag, v))
RemoveAlbumTitle == Mutate("remove_album_title", <<>>, remove_album_title(tag))
SetAlbumArtists ==
    \E v \in {<<"r", "s">>} : Mutate("set_album_artists", <<v>>, set_album_artists(tag, v))
AddAlbumArtist == \E v \in {"r"} : Mutate("add_album_artist", <<v>>, add_album_artist(tag, v))
RemoveAlbumArtists == Mutate("remove_album_artists", <<>>, remove_album_artists(tag))
SetAlbumCover == \E c \in {Cover2} : Mutate("set_album_cover", <<c>>, set_album_cover(tag, c))
RemoveAlbumCover == Mutate("remove_album_cover", <<>>, remove_album_cover(tag))

SetTrack == \E n \in U16Args : Mutate("set_track", <<n>>, set_track(tag, n))
RemoveTrack == Mutate("remove_track", <<>>, remove_track(tag))
SetTrackNumber == \E n \in {7} : Mutate("set_track_number", <<n>>, set_track_number(tag, n))
RemoveTrackNumber == Mutate("remove_track_number", <<>>, remove_track_number(tag))
SetTotalTracks == \E n \in {9} : Mutate("set_total_tracks", <<n>>, set_total_tracks(tag, n))
RemoveTotalTracks == Mutate("remove_total_tracks", <<>>, remove_total_tracks(tag))

SetDisc == \E n \in U16Args : Mutate("set_disc", <<n>>, set_disc(tag, n))
RemoveDisc == Mutate("remove_disc", <<>>, remove_disc(tag))
SetDiscNumber == \E n \in {4} : Mutate("set_disc_number", <<n>>, set_disc_number(tag, n))
RemoveDiscNumber == Mutate("remove_disc_number", <<>>, remove_disc_number(tag))
SetTotalDiscs == \E n \in {5} : Mutate("set_total_discs", <<n>>, set_total_discs(tag, n))
RemoveTotalDiscs == Mutate("remove_total_discs", <<>>, remove_total_discs(tag))

\* tag.to_dyn_tag(tag_type): &self, the source is kept, a new boxed tag returned
ToDynTag ==
    \E tt \in TagTypes :
        /\ nops < MaxOps
        /\ ~panicked
        /\ out' = Some(to_dyn_tag(tag, tt))
        /\ UNCHANGED tag
        /\ pre' = tag
        /\ prev' = last
        /\ last' = "to_dyn_tag"
        /\ arg' = <<tt>>
        /\ box' = None
        /\ panicked' = FALSE
        /\ nops' = nops + 1
        /\ UNCHANGED <<maskVars, propsVars>>

\* $tag::from(Box::new(tag)): the source is consumed, the caller holds the result
FromBox ==
    \E w \in Wrappers : \E tt \in TagTypesOf(w) :
        \E r \in {FromBoxDyn(w, tt, tag)} :
            /\ nops < MaxOps
            /\ ~panicked
            /\ out' = r.ret
            /\ box' = r.box
            /\ panicked' = r.panicked
            /\ tag' = IF r.panicked THEN tag ELSE Unwrap(r.ret)
            /\ pre' = tag
            /\ prev' = last
            /\ last' = "from_box"
            /\ arg' = <<w, tt>>
            /\ nops' = nops + 1
            /\ UNCHANGED <<maskVars, propsVars>>


\* a tag constructed by new() or read_from_path(); no mask and no
\* properties value is built in this machine
Init ==
    /\ tag \in {new(w) : w \in Wrappers}
               \cup {read_from_path(w, c) : w \in Wrappers, c \in FileCorpus}
    /\ pre = tag
    /\ last = "init"
    /\ prev = "init"
    /\ arg = <<>>
    /\ out = None
    /\ box = None
    /\ panicked = FALSE
    /\ nops = 0
    /\ cm = 0
    /\ cmLhs = 0
    /\ cmRhs = 0
    /\ cmOp = "idle"
    /\ cmPrev = <<"idle", 0, 0>>
    /\ cmN = 0
    /\ props = <<>>
    /\ propsArgs = <<>>
    /\ propsPre = <<>>
    /\ propsOp = "idle"
    /\ got = None
    /\ reads = 0

Next ==
    \/ SetTitle \/ RemoveTitle
    \/ SetArtist \/ AddArtist \/ RemoveArtist
    \/ SetYear \/ RemoveYear
    \/ SetAlbumTitle \/ RemoveAlbumTitle
    \/ SetAlbumArtists \/ AddAlbumArtist \/ RemoveAlbumArtists
    \/ SetAlbumCover \/ RemoveAlbumCover
    \/ SetTrack \/ RemoveTrack
    \/ SetTrackNumber \/ RemoveTrackNumber
    \/ SetTotalTracks \/ RemoveTotalTracks
    \/ SetDisc \/ RemoveDisc
    \/ SetDiscNumber \/ RemoveDiscNumber
    \/ SetTotalDiscs \/ RemoveTotalDiscs
    \/ ToDynTag
    \/ FromBox

Spec == Init /\ [][Next]_vars

----------------------------------------------------------------------------
(* Claims on the tag machine *)

\* the last call was a conversion of `pre` to the wrapper of its own type
OwnScheme ==
    /\ last = "to_dyn_tag"
    /\ arg[1] \in TagTypesOf(pre.scheme)

\* the last call was to_dyn_tag with a target of another scheme
OtherScheme ==
    /\ last = "to_dyn_tag"
    /\ arg[1] \notin TagTypesOf(pre.scheme)

\* C1: to_dyn_tag(own scheme) returns a tag on which every AudioTagEdit
\* accessor (title, artist, artists, year, album, track, disc) gives the
\* same result as on the source.
C1_ConversionIdentity ==
    OwnScheme => Observable(Unwrap(out)) = Observable(pre)

\* C2: From<Box<dyn AudioTag>> on a box whose concrete type is the target
\* returns the original value unchanged, native data included, and leaves
\* the consumed box holding a freshly defaulted placeholder.
C2_IdentityShortCircuit ==
    (last = "from_box" /\ pre.scheme = arg[1]) =>
        /\ out = Some(pre)
        /\ tag = pre
        /\ box = Some(new(arg[1]))
        /\ ~panicked

C2_Witness ==
    /\ last = "from_box"
    /\ pre.scheme = arg[1]
    /\ IsSome(pre.native)
    /\ IsSome(year(pre))
    /\ out = Some(pre)
    /\ box # Some(pre)

\* the source has title, artist list, album title and track number set
HasCoreFields(t) ==
    /\ IsSome(title(t))
    /\ IsSome(artists(t))
    /\ IsSome(album_title(t))
    /\ IsSome(track_number(t))

\* C3: converting a tag with title, artists, album title and track number
\* set to another scheme keeps title, the artists in order, album title
\* and track number.
C3_FieldPreservation ==
    (OtherScheme /\ HasCoreFields(pre)) =>
        /\ IsSome(out)
        /\ title(Unwrap(out)) = title(pre)
        /\ artists(Unwrap(out)) = artists(pre)
        /\ album_title(Unwrap(out)) = album_title(pre)
        /\ track_number(Unwrap(out)) = track_number(pre)

C3_Witness ==
    /\ OtherScheme
    /\ HasCoreFields(pre)
    /\ Len(Unwrap(artists(pre))) >= 2
    /\ Unwrap(artists(pre))[1] # Unwrap(artists(pre))[2]
    /\ Unwrap(out).scheme # pre.scheme
    /\ artists(Unwrap(out)) = artists(pre)

\* the wrapper each TagType is documented to produce
DocumentedWrapper(tt) ==
    CASE tt = "Id3v2" -> "Id3v2Tag"
      [] tt \in {"Ogg", "Opus", "Flac"} -> "VorbisTag"
      [] tt = "Mp4" -> "Mp4Tag"

\* C4: conversion never fails: to_dyn_tag returns a tag of the wrapper
\* registered for the TagType, and From<Box<dyn AudioTag>> never panics
\* in its unwrap and returns a tag of the target wrapper.
C4_ConversionNeverFails ==
    /\ ~panicked
    /\ last = "to_dyn_tag" =>
           /\ IsSome(out)
           /\ Unwrap(out).scheme = DocumentedWrapper(arg[1])
    /\ last = "from_box" =>
           /\ IsSome(out)
           /\ Unwrap(out).scheme = arg[1]

C4_Witness ==
    /\ last = "from_box"
    /\ pre.scheme # arg[1]
    /\ arg[2] = "Opus"
    /\ IsSome(out)
    /\ Unwrap(out).scheme = "VorbisTag"
    /\ ~panicked

\* the remove_X calls, each with what its accessor X returns on a tag
Removers ==
    { <<"remove_title", title(tag), title(pre)>>,
      <<"remove_artist", <<artist(tag), artists(tag)>>, <<artist(pre), artists(pre)>> >>,
      <<"remove_year", year(tag), year(pre)>>,
      <<"remove_album_title", album_title(tag), album_title(pre)>>,
      <<"remove_album_artists", album_artists(tag), album_artists(pre)>>,
      <<"remove_album_cover", album_cover(tag), album_cover(pre)>>,
      <<"remove_track_number", track_number(tag), track_number(pre)>>,
      <<"remove_total_tracks", total_tracks(tag), total_tracks(pre)>>,
      <<"remove_disc_number", disc_number(tag), disc_number(pre)>>,
      <<"remove_total_discs", total_discs(tag), total_discs(pre)>>,
      <<"remove_track", track(tag), track(pre)>>,
      <<"remove_disc", disc(tag), disc(pre)>> }

\* an accessor result that says absent
Absent(r) == r \in {None, <<None, None>>}

\* C5: every remove_X is idempotent: X() is absent afterwards, a second
\* call in a row leaves the observable state as the first left it, and a
\* call on an absent field changes nothing and is no error.
C5_IdempotentRemoval ==
    \A r \in Removers :
        last = r[1] =>
            /\ Absent(r[2])
            /\ ~panicked
            /\ prev = r[1] => Observable(tag) = Observable(pre)
            /\ Absent(r[3]) => tag = pre

C5_Witness ==
    /\ last = "remove_disc"
    /\ prev = "remove_disc"
    /\ disc(tag) = <<None, None>>
    /\ tag = pre

\* C6: after set_track(n), track() is (Some(n), total tracks as before)
\* and nothing but the track number has changed; the same for set_disc.
C6_SetTrackFrame ==
    /\ last = "set_track" =>
           /\ track(tag) = <<Some(arg[1]), total_tracks(pre)>>
           /\ tag = [pre EXCEPT !.track_number = Some(arg[1])]
    /\ last = "set_disc" =>
           /\ disc(tag) = <<Some(arg[1]), total_discs(pre)>>
           /\ tag = [pre EXCEPT !.disc_number = Some(arg[1])]

C6_Witness ==
    /\ last = "set_track"
    /\ arg[1] = 65535
    /\ IsSome(total_tracks(pre))
    /\ track_number(pre) # Some(65535)
    /\ track(tag) = <<Some(65535), total_tracks(pre)>>

\* C7: after remove_track() track number and total tracks are both
\* absent and no other field has changed; the same for remove_disc.
C7_RemoveTrackBoth ==
    /\ last = "remove_track" =>
           /\ track_number(tag) = None
           /\ total_tracks(tag) = None
           /\ track(tag) = <<None, None>>
           /\ tag = [pre EXCEPT !.track_number = None,
                                !.total_tracks = None]
    /\ last = "remove_disc" =>
           /\ disc_number(tag) = None
           /\ total_discs(tag) = None
           /\ disc(tag) = <<None, None>>
           /\ tag = [pre EXCEPT !.disc_number = None,
                                !.total_discs = None]

C7_Witness ==
    /\ last = "remove_track"
    /\ IsSome(track_number(pre))
    /\ IsSome(total_tracks(pre))
    /\ track(tag) = <<None, None>>

\* the last call converted `pre` through AnyTag into another wrapper
GenericPath ==
    \/ OtherScheme
    \/ last = "from_box" /\ pre.scheme # arg[1]

\* the common fields of an AnyTag, album fields flattened
CommonFields(a) ==
    <<a.title, a.artists, a.album.title, a.album.artists, a.album.cover,
      a.track_number, a.total_tracks, a.disc_number, a.total_discs>>

\* C9: in the generic path every common field absent in the source's
\* AnyTag projection is absent in the converted tag.
C9_NoInventedFields ==
    (GenericPath /\ IsSome(out)) =>
        /\ \A i \in 1..9 :
               CommonFields(to_anytag(pre))[i] = None =>
                   CommonFields(AnyTagOf(Unwrap(out)))[i] = None
        /\ artist(pre) = None => artist(Unwrap(out)) = None

C9_Witness ==
    /\ GenericPath
    /\ IsSome(out)
    /\ title(pre) = None
    /\ title(Unwrap(out)) = None
    /\ IsSome(total_tracks(pre))
    /\ IsSome(total_tracks(Unwrap(out)))

----------------------------------------------------------------------------
(* properties.rs: ChannelMask, a u32 newtype *)

\* u32 `|` and `&`, bit by bit from the least significant one
RECURSIVE U32Or(_, _)
U32Or(a, b) ==
    IF a = 0 THEN b
    ELSE IF b = 0 THEN a
    ELSE (IF a % 2 = 1 \/ b % 2 = 1 THEN 1 ELSE 0) + 2 * U32Or(a \div 2, b \div 2)

RECURSIVE U32And(_, _)
U32And(a, b) ==
    IF a = 0 \/ b = 0 THEN 0
    ELSE (IF a % 2 = 1 /\ b % 2 = 1 THEN 1 ELSE 0) + 2 * U32And(a \div 2, b \div 2)

\* bits in the u32 of ChannelMask(pub(crate) u32)
U32Bits == 32

\* u32 `1 << shift`; every shift of the list is below the width, so no
\* bit is shifted out
Shl1(shift) == 2 ^ shift

\* the list with one line copied and its shift left unchanged
ChannelShift_CopiedLine ==
    [FRONT_LEFT |-> 0, FRONT_RIGHT |-> 1, FRONT_CENTER |-> 2,
     LOW_FREQUENCY |-> 3, BACK_LEFT |-> 4, BACK_RIGHT |-> 5,
     FRONT_LEFT_OF_CENTER |-> 6, FRONT_RIGHT_OF_CENTER |-> 7,
     BACK_CENTER |-> 8, SIDE_LEFT |-> 9, SIDE_RIGHT |-> 10,
     TOP_CENTER |-> 11, TOP_FRONT_LEFT |-> 12, TOP_FRONT_CENTER |-> 13,
     TOP_FRONT_RIGHT |-> 14, TOP_BACK_LEFT |-> 15, TOP_BACK_CENTER |-> 16,
     TOP_BACK_RIGHT |-> 16]

\* the $name => $shift list handed to define_channels!
ChannelShift ==
    [FRONT_LEFT |-> 0, FRONT_RIGHT |-> 1, FRONT_CENTER |-> 2,
     LOW_FREQUENCY |-> 3, BACK_LEFT |-> 4, BACK_RIGHT |-> 5,
     FRONT_LEFT_OF_CENTER |-> 6, FRONT_RIGHT_OF_CENTER |-> 7,
     BACK_CENTER |-> 8, SIDE_LEFT |-> 9, SIDE_RIGHT |-> 10,
     TOP_CENTER |-> 11, TOP_FRONT_LEFT |-> 12, TOP_FRONT_CENTER |-> 13,
     TOP_FRONT_RIGHT |-> 14, TOP_BACK_LEFT |-> 15, TOP_BACK_CENTER |-> 16,
     TOP_BACK_RIGHT |-> 17]

ChannelNames == DOMAIN ChannelShift

\* define_channels!: pub const $name: Self = Self(1 << $shift)
Channel(name) == Shl1(ChannelShift[name])

\* the 18 named constants
ChannelConstants == {Channel(c) : c \in ChannelNames}

\* #[derive(Default)] on ChannelMask(u32)
ChannelMaskDefault == 0

\* ChannelMask::mono
mono == Channel("FRONT_CENTER")

\* ChannelMask::stereo
stereo == U32Or(Channel("FRONT_LEFT"), Channel("FRONT_RIGHT"))

\* ChannelMask::bits
bits(m) == m

\* bitor written with the other operator
bitor_And(self, rhs) == U32And(self, rhs)

\* impl BitOr for ChannelMask
bitor(self, rhs) == U32Or(self, rhs)

\* impl BitAnd for ChannelMask
bitand(self, rhs) == U32And(self, rhs)

----------------------------------------------------------------------------
(* The mask machine: a mask is built, then combined MaxMaskOps times *)

\* a constructor call: the value is new, its history empty.  A run follows
\* one value: it is built before it is combined (a value built later has the
\* same empty history, so no state is lost).
MaskBuilt(name, m) ==
    /\ cmN = 0
    /\ cm' = m
    /\ cmLhs' = m
    /\ cmRhs' = m
    /\ cmOp' = name
    /\ cmPrev' = <<"idle", 0, 0>>
    /\ cmN' = 0
    /\ UNCHANGED <<tagVars, propsVars>>

\* an operator call on the current value
MaskCombined(name, rhs, m) ==
    /\ cmN < MaxMaskOps
    /\ cm' = m
    /\ cmLhs' = cm
    /\ cmRhs' = rhs
    /\ cmOp' = name
    /\ cmPrev' = <<cmOp, cmLhs, cmRhs>>
    /\ cmN' = cmN + 1
    /\ UNCHANGED <<tagVars, propsVars>>

MaskConst == \E c \in ChannelNames : MaskBuilt("const", Channel(c))
MaskMono == MaskBuilt("mono", mono)
MaskStereo == MaskBuilt("stereo", stereo)
MaskDefault == MaskBuilt("default", ChannelMaskDefault)
MaskBitOr == \E c \in ChannelNames : MaskCombined("bitor", Channel(c), bitor(cm, Channel(c)))
MaskBitAnd == \E c \in ChannelNames : MaskCombined("bitand", Channel(c), bitand(cm, Channel(c)))

MaskNext ==
    \/ MaskConst \/ MaskMono \/ MaskStereo \/ MaskDefault
    \/ MaskBitOr \/ MaskBitAnd

\* a default mask; the tag stays as constructed, no properties value is built
MaskInit ==
    /\ cm = ChannelMaskDefault
    /\ cmLhs = cm
    /\ cmRhs = cm
    /\ cmOp = "default"
    /\ cmPrev = <<"idle", 0, 0>>
    /\ cmN = 0
    /\ tag = new("Id3v2Tag")
    /\ pre = tag
    /\ last = "idle"
    /\ prev = "idle"
    /\ arg = <<>>
    /\ out = None
    /\ box = None
    /\ panicked = FALSE
    /\ nops = 0
    /\ props = <<>>
    /\ propsArgs = <<>>
    /\ propsPre = <<>>
    /\ propsOp = "idle"
    /\ got = None
    /\ reads = 0

MaskSpec == MaskInit /\ [][MaskNext]_vars

----------------------------------------------------------------------------
(* Claims on the mask machine *)

RECURSIVE BitsFrom(_, _)
\* the positions of the bits set in n, the lowest counted as position i
BitsFrom(n, i) ==
    IF n = 0 THEN {}
    ELSE (IF n % 2 = 1 THEN {i} ELSE {}) \cup BitsFrom(n \div 2, i + 1)

\* the positions of the bits set in a u32
BitsOf(n) == BitsFrom(n, 0)

\* C8: ChannelMask combination is boolean algebra on the bit-set: A | B
\* has the bits of either operand, A & B the bits of both, (A | B) & A
\* is A for constants A and B, stereo() is FRONT_LEFT | FRONT_RIGHT and
\* mono() is FRONT_CENTER.
C8_MaskAlgebra ==
    /\ cmOp = "bitor" =>
           BitsOf(bits(cm)) = BitsOf(bits(cmLhs)) \cup BitsOf(bits(cmRhs))
    /\ cmOp = "bitand" =>
           BitsOf(bits(cm)) = BitsOf(bits(cmLhs)) \cap BitsOf(bits(cmRhs))
    /\ (/\ cmOp = "bitand"
        /\ cmPrev[1] = "bitor"
        /\ cmPrev[2] \in ChannelConstants
        /\ cmPrev[3] \in ChannelConstants
        /\ cmRhs = cmPrev[2]) => cm = cmPrev[2]
    /\ cmOp = "stereo" =>
           BitsOf(bits(cm)) = BitsOf(bits(Channel("FRONT_LEFT")))
                                \cup BitsOf(bits(Channel("FRONT_RIGHT")))
    /\ cmOp = "mono" => bits(cm) = bits(Channel("FRONT_CENTER"))

C8_Witness ==
    /\ cmOp = "bitand"
    /\ cmRhs = Channel("TOP_BACK_RIGHT")
    /\ cmPrev = <<"bitor", Channel("TOP_BACK_RIGHT"), Channel("FRONT_LEFT")>>
    /\ cmLhs = 131073
    /\ cm = 131072

\* the constants in the order of their documented bit positions, bit 0 first
ChannelOrder ==
    <<"FRONT_LEFT", "FRONT_RIGHT", "FRONT_CENTER", "LOW_FREQUENCY",
      "BACK_LEFT", "BACK_RIGHT", "FRONT_LEFT_OF_CENTER",
      "FRONT_RIGHT_OF_CENTER", "BACK_CENTER", "SIDE_LEFT", "SIDE_RIGHT",
      "TOP_CENTER", "TOP_FRONT_LEFT", "TOP_FRONT_CENTER", "TOP_FRONT_RIGHT",
      "TOP_BACK_LEFT", "TOP_BACK_CENTER", "TOP_BACK_RIGHT">>

\* the 18 constants: one bit each, constant i of the order at position
\* i - 1, no two at the same position, every shift below the u32 width
OneBitEach ==
    /\ ChannelNames = {ChannelOrder[i] : i \in 1..18}
    /\ \A i \in 1..18 : BitsOf(bits(Channel(ChannelOrder[i]))) = {i - 1}
    /\ \A a, b \in ChannelNames :
           a # b => BitsOf(bits(Channel(a))) \cap BitsOf(bits(Channel(b))) = {}
    /\ \A c \in ChannelNames : ChannelShift[c] \in 0..(U32Bits - 1)

\* C11: each of the 18 constants has exactly one bit, at pairwise distinct
\* positions 0..17; A & B is empty for two different constants; the OR of
\* k distinct constants has exactly k bits and is below 2^18; no shift
\* leaves the 32-bit mask and the default mask holds no channel.
C11_DistinctSingleBits ==
    /\ OneBitEach
    /\ cmOp = "const" =>
           /\ Cardinality(BitsOf(bits(cm))) = 1
           /\ BitsOf(bits(cm)) \subseteq 0..17
    /\ (cmOp = "bitand" /\ cmN = 1 /\ cmPrev[1] = "const" /\ cmLhs # cmRhs) =>
           bits(cm) = 0
    /\ (cmOp = "bitor" /\ cmN = 1 /\ cmPrev[1] = "const" /\ cmLhs # cmRhs) =>
           Cardinality(BitsOf(bits(cm))) = 2
    /\ (/\ cmOp = "bitor" /\ cmN = 2
        /\ cmPrev[1] = "bitor" /\ cmPrev[2] \in ChannelConstants
        /\ Cardinality({cmPrev[2], cmPrev[3], cmRhs}) = 3) =>
           Cardinality(BitsOf(bits(cm))) = 3
    /\ (cmOp = "bitor" /\ BitsOf(bits(cmRhs)) \cap BitsOf(bits(cmLhs)) = {}) =>
           Cardinality(BitsOf(bits(cm))) = Cardinality(BitsOf(bits(cmLhs))) + 1
    /\ bits(cm) < 2 ^ 18
    /\ cmOp = "default" =>
           /\ bits(cm) = 0
           /\ \A c \in ChannelNames : bitand(cm, Channel(c)) = 0

C11_Witness ==
    /\ cmOp = "bitor"
    /\ cmN = 2
    /\ cmPrev = <<"bitor", Channel("TOP_BACK_RIGHT"), Channel("FRONT_LEFT")>>
    /\ cmRhs = Channel("TOP_BACK_CENTER")
    /\ BitsOf(bits(cm)) = {0, 16, 17}
    /\ bits(cm) = 196609


----------------------------------------------------------------------------
(* properties.rs: FileProperties *)

\* Duration::ZERO, in milliseconds
DurationZero == 0

\* impl Default for FileProperties
FilePropertiesDefault ==
    [duration |-> DurationZero,
     overall_bitrate |-> None,
     audio_bitrate |-> None,
     sample_rate |-> None,
     bit_depth |-> None,
     channels |-> None,
     channel_mask |-> None]

\* new with two arguments of the same type stored crosswise
FilePropertiesNew_Swapped(d, ob, ab, sr, bd, ch, mask) ==
    [duration |-> d,
     overall_bitrate |-> ab,
     audio_bitrate |-> ob,
     sample_rate |-> sr,
     bit_depth |-> bd,
     channels |-> ch,
     channel_mask |-> mask]

\* FileProperties::new
FilePropertiesNew(d, ob, ab, sr, bd, ch, mask) ==
    [duration |-> d,
     overall_bitrate |-> ob,
     audio_bitrate |-> ab,
     sample_rate |-> sr,
     bit_depth |-> bd,
     channels |-> ch,
     channel_mask |-> mask]

\* the getters, each returning a copy of its field
duration(p) == p.duration
overall_bitrate(p) == p.overall_bitrate
audio_bitrate(p) == p.audio_bitrate
sample_rate(p) == p.sample_rate
bit_depth(p) == p.bit_depth
channels(p) == p.channels
channel_mask(p) == p.channel_mask

\* argument values FileProperties::new is called with
Durations == {DurationZero, 1428}
Bitrates == {None, Some(1536), Some(2147483647)}
SampleRates == {None, Some(48000)}
BitDepths == {None, Some(16), Some(255)}
ChannelCounts == {None, Some(2)}
ChannelMasks == {None, Some(mono), Some(stereo)}

----------------------------------------------------------------------------
(* The properties machine: a value is constructed, then read MaxReads times *)

\* a constructor call; as for the mask, a run follows one value
PropsBuilt(name, args, p) ==
    /\ reads = 0
    /\ props' = p
    /\ propsArgs' = args
    /\ propsPre' = p
    /\ propsOp' = name
    /\ got' = None
    /\ UNCHANGED reads
    /\ UNCHANGED <<tagVars, maskVars>>

\* a getter call (&self): the value is read, not written
PropsRead(name, v) ==
    /\ reads < MaxReads
    /\ got' = Some(v)
    /\ propsPre' = props
    /\ propsOp' = name
    /\ reads' = reads + 1
    /\ UNCHANGED <<props, propsArgs>>
    /\ UNCHANGED <<tagVars, maskVars>>

PropsNew ==
    \E d \in Durations, ob \in Bitrates, ab \in Bitrates, sr \in SampleRates,
       bd \in BitDepths, ch \in ChannelCounts, mask \in ChannelMasks :
        PropsBuilt("new", <<d, ob, ab, sr, bd, ch, mask>>,
                   FilePropertiesNew(d, ob, ab, sr, bd, ch, mask))

PropsDefault == PropsBuilt("default", <<>>, FilePropertiesDefault)

GetDuration == PropsRead("duration", duration(props))
GetOverallBitrate == PropsRead("overall_bitrate", overall_bitrate(props))
GetAudioBitrate == PropsRead("audio_bitrate", audio_bitrate(props))
GetSampleRate == PropsRead("sample_rate", sample_rate(props))
GetBitDepth == PropsRead("bit_depth", bit_depth(props))
GetChannels == PropsRead("channels", channels(props))
GetChannelMask == PropsRead("channel_mask", channel_mask(props))

PropsNext ==
    \/ PropsNew \/ PropsDefault
    \/ GetDuration \/ GetOverallBitrate \/ GetAudioBitrate \/ GetSampleRate
    \/ GetBitDepth \/ GetChannels \/ GetChannelMask

\* default properties; the tag and the mask stay as constructed
PropsInit ==
    /\ props = FilePropertiesDefault
    /\ propsArgs = <<>>
    /\ propsPre = props
    /\ propsOp = "default"
    /\ got = None
    /\ reads = 0
    /\ tag = new("Id3v2Tag")
    /\ pre = tag
    /\ last = "idle"
    /\ prev = "idle"
    /\ arg = <<>>
    /\ out = None
    /\ box = None
    /\ panicked = FALSE
    /\ nops = 0
    /\ cm = ChannelMaskDefault
    /\ cmLhs = cm
    /\ cmRhs = cm
    /\ cmOp = "default"
    /\ cmPrev = <<"idle", 0, 0>>
    /\ cmN = 0

PropsSpec == PropsInit /\ [][PropsNext]_vars

----------------------------------------------------------------------------
(* Claims on the properties machine *)

\* the getters in the order of new's parameters
GetterNames ==
    <<"duration", "overall_bitrate", "audio_bitrate", "sample_rate",
      "bit_depth", "channels", "channel_mask">>

\* what the value was constructed from: new's arguments, or the documented
\* default (duration zero, every optional field None)
Constructed ==
    IF propsArgs = <<>>
    THEN <<0, None, None, None, None, None, None>>
    ELSE propsArgs

\* C10: FileProperties is a write-once snapshot: after new(...) the
\* getters return the arguments, after default() duration zero and None
\* for every optional field, and no getter changes the value.
C10_WriteOnceSnapshot ==
    /\ <<duration(props), overall_bitrate(props), audio_bitrate(props),
         sample_rate(props), bit_depth(props), channels(props),
         channel_mask(props)>> = Constructed
    /\ \A i \in 1..7 :
           propsOp = GetterNames[i] =>
               /\ got = Some(Constructed[i])
               /\ props = propsPre

C10_Witness ==
    /\ propsOp = "audio_bitrate"
    /\ reads = 2
    /\ propsArgs # <<>>
    /\ propsArgs[2] # propsArgs[3]
    /\ propsArgs[5] = Some(255)
    /\ got = Some(propsArgs[3])

====
